---------------------------- MODULE Spec2Model ----------------------------
(***************************************************************************)
(* The DNS client of part1_dns: the message codec (encode_qname,           *)
(* build_query, read_name, parse_response) and the single resolution       *)
(* transaction (resolve_once).                                             *)
(*                                                                         *)
(* A bytes object is a sequence of integers 0..255.  Python offsets are    *)
(* 0-based, so byte k of msg is msg[k + 1] here.  A str is the sequence of *)
(* its code points.                                                        *)
(***************************************************************************)
EXTENDS Integers, Sequences, FiniteSets, TLC

VARIABLES
    \* read_name(msg, offset): its arguments and locals, one loop pass a step
    msg, offset, labels, jumped, origin, rnpc, steps, start, firstPtr,
    lastTarget, decreasing, forward,
    \* build_query(tid, hostname) and the decoding of what it built
    hostname, tid, query, encpc, back,
    \* parse_response(resp)
    \* sent: the well-formed response, of qdcount questions and the records recs
    resp, sent, cut, recs, qdcount, parsed, prpc,
    \* resolve_once(hostname, resolver_ip)
    pc, sock, sends, recvs, decodes, reply, result, outcome,
    \* the platform the process runs on: what becomes of it when it asks for
    \* more memory than there is
    oom

rnVars == <<msg, offset, labels, jumped, origin, rnpc, steps, start, firstPtr,
            lastTarget, decreasing, forward>>
encVars == <<hostname, tid, query, encpc, back>>
prVars == <<resp, sent, cut, recs, qdcount, parsed, prpc>>
txVars == <<pc, sock, sends, recvs, decodes, reply, result, outcome>>
vars == <<rnVars, encVars, prVars, txVars, oom>>

----------------------------------------------------------------------------
(* Bounds of the model *)

\* longest buffer handed to read_name in SpecName
MaxLen == 5
\* most labels of a hostname built from LabelPool
MaxLabels == 3
\* longest hostname enumerated character by character
MaxChars == 4
\* most answer records of a synthetic response
MaxRecords == 2

----------------------------------------------------------------------------
(* bytes and str helpers *)

\* msg[k] for a 0-based k inside the buffer
Byte(m, k) == m[k + 1]

\* msg[a:b] : clipped to the buffer, never an error
Slice(m, a, b) ==
    LET lo == IF a > Len(m) THEN Len(m) ELSE a
        hi == IF b > Len(m) THEN Len(m) ELSE b
    IN  IF hi <= lo THEN <<>> ELSE SubSeq(m, lo + 1, hi)

\* bytes.decode("ascii", errors="ignore"): bytes >= 128 are dropped
DecodeAscii(b) == SelectSeq(b, LAMBDA x : x < 128)

RECURSIVE JoinWith(_, _)
\* sep.join(parts)
JoinWith(sep, parts) ==
    IF parts = <<>> THEN <<>>
    ELSE IF Len(parts) = 1 THEN parts[1]
    ELSE parts[1] \o sep \o JoinWith(sep, Tail(parts))

Dot == <<46>>

----------------------------------------------------------------------------
(* read_name *)

\* (length & 0xC0) == 0xC0
IsPointer(length) == (length \div 64) % 4 = 3

\* ((length & 0x3F) << 8) | msg[offset + 1]
PointerTarget(length, low) == (length % 64) * 256 + low

\* a read_name that moves origin at every pointer, not only the first
OriginAtEveryPointer(off, wasJumped, org) == off + 2

\* origin is set on the first pointer only
OriginAfterPointer(off, wasJumped, org) == IF wasJumped THEN org ELSE off + 2

\* offset = pointer
JumpTo(off, pointer) == pointer

\* a read_name whose last statement assigns the length instead of adding it
AfterLabelAssigned(off, length) == length

\* a read_name that does not step over the length byte
AfterLabelNoLengthByte(off, length) == off + length

\* offset += 1 ; ... ; offset += length
AfterLabel(off, length) == off + 1 + length

\* the value read_name returns as its second component
EndOffset(st) == IF st.jumped THEN st.origin ELSE st.offset

\* the kind of loop pass read_name makes at offset off of m
PassKind(m, off) ==
    IF off >= Len(m) THEN "IndexError"
    ELSE IF IsPointer(Byte(m, off))
         THEN IF off + 1 >= Len(m) THEN "IndexError" ELSE "pointer"
    ELSE IF Byte(m, off) = 0 THEN "zero"
    ELSE "label"

\* one pass of the while loop, on the locals st
ReadNameStep(m, st) ==
    LET off == st.offset
        kind == PassKind(m, off)
    IN  CASE kind = "IndexError" -> [st EXCEPT !.status = "IndexError"]
          [] kind = "pointer" ->
                LET pointer == PointerTarget(Byte(m, off), Byte(m, off + 1))
                IN  [st EXCEPT !.origin = OriginAfterPointer(off, st.jumped, st.origin),
                               !.jumped = TRUE,
                               !.offset = JumpTo(off, pointer)]
          [] kind = "zero" -> [st EXCEPT !.offset = off + 1, !.status = "ret"]
          [] OTHER ->
                LET length == Byte(m, off)
                IN  [st EXCEPT !.labels = Append(st.labels,
                                   DecodeAscii(Slice(m, off + 1, off + 1 + length))),
                               !.offset = AfterLabel(off, length)]

RnStart(off) ==
    [offset |-> off, labels |-> <<>>, jumped |-> FALSE, origin |-> off,
     status |-> "run"]

RECURSIVE RnPasses(_, _, _)
\* n more passes of the loop, or fewer when it ends
RnPasses(m, st, n) ==
    IF st.status # "run" \/ n = 0 THEN st ELSE RnPasses(m, ReadNameStep(m, st), n - 1)

\* st lies on a cycle of offsets: whether a lap of it appends to labels.  A
\* cycle is no longer than Len(m) passes, so Len(m) passes make a full lap.
CycleGrows(m, st) == Len(RnPasses(m, st, Len(m)).labels) > Len(st.labels)

\* what the platform does to a process that has used up the memory: the
\* allocation is refused and labels.append raises MemoryError (a limit on the
\* address space), or the process is killed and read_name neither returns
\* nor raises (no limit: the kernel ends the process)
OomOutcomes == {"MemoryError", "killed"}

\* how a run that is on a cycle goes on: a cycle of pointers alone repeats
\* the same locals for ever ("hang"); a cycle with a label in it makes the
\* labels list one longer every lap, until the memory is used up
CycleOutcome(m, st) == IF CycleGrows(m, st) THEN oom ELSE "hang"

RECURSIVE RnRun(_, _, _)
\* the loop run to its end.  Which branch a pass takes and where it goes
\* depend on offset alone, so a run that makes more than Len(m) + 1 passes
\* has repeated an offset and is on a cycle; the labels it holds by then are
\* kept as they are at that pass.
RnRun(m, st, fuel) ==
    IF st.status # "run" THEN st
    ELSE IF fuel = 0 THEN [st EXCEPT !.status = CycleOutcome(m, st)]
    ELSE RnRun(m, ReadNameStep(m, st), fuel - 1)

\* read_name(msg, offset): status "ret" with name and end, or the failure
\* ("IndexError", "MemoryError"), or "hang" when it never comes back, or
\* "killed" when the process is ended inside it
ReadName(m, off) ==
    LET st == RnRun(m, RnStart(off), Len(m) + 2)
    IN  [status |-> st.status,
         name |-> JoinWith(Dot, st.labels),
         labels |-> st.labels,
         end |-> EndOffset(st)]

----------------------------------------------------------------------------
(* struct.pack / struct.unpack, network byte order *)

\* struct.pack("!H", n)
Pack16(n) == <<(n \div 256) % 256, n % 256>>

\* struct.pack("!I", n)
Pack32(n) == <<(n \div 16777216) % 256, (n \div 65536) % 256, (n \div 256) % 256, n % 256>>

\* struct.unpack("!H", ...) of the two bytes at 0-based offset k
Unpack16(m, k) == Byte(m, k) * 256 + Byte(m, k + 1)

\* struct.unpack("!I", ...) of the four bytes at 0-based offset k.  The
\* integers TLC computes with are 32-bit signed: the inputs keep the first byte below 128.
Unpack32(m, k) ==
    Byte(m, k) * 16777216 + Byte(m, k + 1) * 65536 + Byte(m, k + 2) * 256 + Byte(m, k + 3)

----------------------------------------------------------------------------
(* encode_qname and build_query *)

QTYPE_A == 1

RECURSIVE StripLeft(_)
StripLeft(s) == IF s # <<>> /\ Head(s) = 46 THEN StripLeft(Tail(s)) ELSE s

RECURSIVE StripRight(_)
StripRight(s) ==
    IF s # <<>> /\ s[Len(s)] = 46 THEN StripRight(SubSeq(s, 1, Len(s) - 1)) ELSE s

\* name.strip(".")
StripDots(s) == StripRight(StripLeft(s))

\* s.split("."): always at least one part, empty parts kept.  The parts lie
\* between consecutive dots, the two ends of s counting as dots.
SplitDots(s) ==
    LET dots == {i \in 1..Len(s) : s[i] = 46}
        n == Cardinality(dots)
        edge(k) == IF k = 0 THEN 0
                   ELSE IF k = n + 1 THEN Len(s) + 1
                   ELSE CHOOSE i \in dots : Cardinality({j \in dots : j <= i}) = k
    IN  [k \in 1..(n + 1) |-> SubSeq(s, edge(k - 1) + 1, edge(k) - 1)]

\* label.encode("ascii") succeeds
IsAscii(label) == \A i \in 1..Len(label) : label[i] < 128

\* the length a label may have for its length byte to be packed:
\* struct.pack("!B", n) takes any n in 0..255
PackableLen(n) == n <= 255

RECURSIVE EncodeLabels(_, _)
\* the for loop of encode_qname over the labels still to encode, out so far
EncodeLabels(ls, out) ==
    IF ls = <<>> THEN [status |-> "ok", bytes |-> out \o <<0>>]
    ELSE IF ~IsAscii(Head(ls)) THEN [status |-> "UnicodeEncodeError", bytes |-> <<>>]
    ELSE IF ~PackableLen(Len(Head(ls))) THEN [status |-> "struct.error", bytes |-> <<>>]
    ELSE EncodeLabels(Tail(ls), out \o <<Len(Head(ls))>> \o Head(ls))

\* encode_qname(name)
EncodeQname(name) == EncodeLabels(SplitDots(StripDots(name)), <<>>)

\* a build_query that packs the id low byte first
QueryHeaderLowFirst(t) ==
    <<t % 256, (t \div 256) % 256>> \o Pack16(256) \o Pack16(1) \o Pack16(0) \o Pack16(0) \o Pack16(0)

\* the header build_query packs: tid, flags 0x0100, QDCOUNT 1, the rest 0
QueryHeader(t) == Pack16(t) \o Pack16(256) \o Pack16(1) \o Pack16(0) \o Pack16(0) \o Pack16(0)

\* build_query(tid, hostname)
BuildQuery(t, h) ==
    LET q == EncodeQname(h)
    IN  IF q.status # "ok" THEN q
        ELSE [status |-> "ok",
              bytes |-> QueryHeader(t) \o q.bytes \o Pack16(QTYPE_A) \o Pack16(1)]

----------------------------------------------------------------------------
(* parse_response *)

RECURSIVE DecStr(_)
\* str(b) for b >= 0: its decimal digits
DecStr(n) == IF n < 10 THEN <<48 + n>> ELSE DecStr(n \div 10) \o <<48 + (n % 10)>>

\* ".".join(str(b) for b in rdata)
DottedDecimal(rdata) == JoinWith(Dot, [i \in 1..Len(rdata) |-> DecStr(rdata[i])])

\* a parse_response that does not look at the payload length
IsARecordByTypeOnly(rtype, rdlength) == rtype = 1

\* rtype == 1 and rdlength == 4
IsARecord(rtype, rdlength) == rtype = 1 /\ rdlength = 4

\* the cursor after a record's payload: offset += rdlength
AfterRdata(off, rdlength) == off + rdlength

RECURSIVE SkipQuestions(_, _, _)
\* the loop over the question section: the offset after it, or the failure
SkipQuestions(r, off, qd) ==
    IF qd = 0 THEN [status |-> "ok", offset |-> off]
    ELSE LET n == ReadName(r, off)
         IN  IF n.status # "ret" THEN [status |-> n.status, offset |-> off]
             ELSE SkipQuestions(r, n.end + 4, qd - 1)

RECURSIVE ReadAnswers(_, _, _, _)
\* the loop over the answer section: the answers list, or the failure
ReadAnswers(r, off, an, answers) ==
    IF an = 0 THEN [status |-> "ok", answers |-> answers]
    ELSE LET n == ReadName(r, off)
         IN  IF n.status # "ret" THEN [status |-> n.status, answers |-> <<>>]
             ELSE IF Len(Slice(r, n.end, n.end + 10)) # 10
                  THEN [status |-> "struct.error", answers |-> <<>>]
             ELSE LET o == n.end
                      rtype == Unpack16(r, o)
                      ttl == Unpack32(r, o + 4)
                      rdlength == Unpack16(r, o + 8)
                      rdata == Slice(r, o + 10, o + 10 + rdlength)
                      entry == [type |-> "A", ip |-> DottedDecimal(rdata), ttl |-> ttl]
                  IN  ReadAnswers(r, AfterRdata(o + 10, rdlength), an - 1,
                                  IF IsARecord(rtype, rdlength)
                                  THEN Append(answers, entry) ELSE answers)

\* parse_response(resp): status "ok" with id, rcode and answers, or the failure
ParseResponse(r) ==
    IF Len(r) < 12 THEN [status |-> "ValueError", id |-> 0, rcode |-> 0, answers |-> <<>>]
    ELSE LET q == SkipQuestions(r, 12, Unpack16(r, 4))
         IN  IF q.status # "ok"
             THEN [status |-> q.status, id |-> 0, rcode |-> 0, answers |-> <<>>]
             ELSE LET a == ReadAnswers(r, q.offset, Unpack16(r, 6), <<>>)
                  IN  [status |-> a.status,
                       id |-> IF a.status = "ok" THEN Unpack16(r, 0) ELSE 0,
                       rcode |-> IF a.status = "ok" THEN Unpack16(r, 2) % 16 ELSE 0,
                       answers |-> a.answers]

----------------------------------------------------------------------------
(* Inputs *)

\* a str of n copies of the character c
Rep(c, n) == [i \in 1..n |-> c]

\* all sequences over S of length at most n
SeqsUpTo(S, n) == UNION {[1..k -> S] : k \in 0..n}

\* "example.com"
ExampleCom == <<101, 120, 97, 109, 112, 108, 101, 46, 99, 111, 109>>

\* "tmz.com", the HOSTNAME of the configuration
TmzCom == <<116, 109, 122, 46, 99, 111, 109>>

\* transaction ids: 16-bit values, as int(time.time() * 1000) & 0xFFFF gives
Ids == {0, 255, 4660, 65535}

\* the bytes the buffers of SpecName are made of: the terminator, label
\* lengths and pointer targets 1..3, a letter, and the pointer marker 0xC0
NameBytes == {0, 1, 2, 3, 97, 192}

\* one resource record on the wire: owner name, type, class, ttl, rdlength, rdata
RecordBytes(rec) ==
    rec.owner \o Pack16(rec.rtype) \o Pack16(1) \o Pack32(rec.ttl)
        \o Pack16(Len(rec.rdata)) \o rec.rdata

RECURSIVE RecordsBytes(_)
RecordsBytes(rs) ==
    IF rs = <<>> THEN <<>> ELSE RecordBytes(Head(rs)) \o RecordsBytes(Tail(rs))

\* a complete response: header, qd copies of the question for h, the records
ResponseBytes(t, flags, qd, h, rs) ==
    Pack16(t) \o Pack16(flags) \o Pack16(qd) \o Pack16(Len(rs)) \o Pack16(0) \o Pack16(0)
        \o (IF qd = 1 THEN EncodeQname(h).bytes \o Pack16(1) \o Pack16(1) ELSE <<>>)
        \o RecordsBytes(rs)

\* owner names: a pointer to the question name at offset 12, the root name,
\* and the label "www" followed by that pointer
OwnerPtr == <<192, 12>>
OwnerRoot == <<0>>
OwnerWwwPtr == <<3, 119, 119, 119, 192, 12>>

\* the response of the end-to-end scenario: one address record 93.184.216.34, TTL 300
SampleRecord == [owner |-> OwnerPtr, rtype |-> 1, ttl |-> 300, rdata |-> <<93, 184, 216, 34>>]
SampleResponse == ResponseBytes(4660, 33152, 1, ExampleCom, <<SampleRecord>>)

\* a buffer of three names behind a 12-byte header: "b" at offset 12, "a" and
\* a pointer to it at offset 15, "www" and a pointer to that at offset 19
ChainedNames ==
    QueryHeader(4660) \o <<1, 98, 0>> \o <<1, 97, 192, 12>> \o <<3, 119, 119, 119, 192, 15>>
WwwAB == <<119, 119, 119, 46, 97, 46, 98>>

----------------------------------------------------------------------------
(* The variables a specification does not use stay at these values *)

RnIdle ==
    /\ msg = <<>> /\ offset = 0 /\ labels = <<>> /\ jumped = FALSE /\ origin = 0
    /\ rnpc = "idle" /\ steps = 0 /\ start = 0 /\ firstPtr = -1 /\ lastTarget = 0
    /\ decreasing = TRUE /\ forward = FALSE

EncIdle == hostname = <<>> /\ tid = 0 /\ query = [status |-> "none", bytes |-> <<>>]
           /\ encpc = "idle" /\ back = <<>>

PrIdle == resp = <<>> /\ sent = <<>> /\ cut = 0 /\ recs = <<>> /\ qdcount = 0
          /\ parsed = <<>> /\ prpc = "idle"

TxIdle == pc = "idle" /\ sock = "none" /\ sends = 0 /\ recvs = 0 /\ decodes = 0
          /\ reply = <<>> /\ result = <<>> /\ outcome = "none"

----------------------------------------------------------------------------
(* SpecName: read_name, one pass of its loop per step *)

RnInit ==
    /\ msg \in SeqsUpTo(NameBytes, MaxLen) \cup {SampleResponse, ChainedNames}
    /\ offset \in 0..Len(msg)
    /\ start = offset
    /\ labels = <<>> /\ jumped = FALSE /\ origin = offset
    /\ rnpc = "run" /\ steps = 0
    /\ firstPtr = -1 /\ lastTarget = offset /\ decreasing = TRUE /\ forward = FALSE

InitName == RnInit /\ EncIdle /\ PrIdle /\ TxIdle /\ oom \in OomOutcomes

RnLocals == [offset |-> offset, labels |-> labels, jumped |-> jumped,
             origin |-> origin, status |-> rnpc]

\* the passes are counted up to Len(msg) + 3: a run that long is on a cycle
RnPass(kind) ==
    /\ rnpc = "run"
    /\ steps < Len(msg) + 3
    /\ PassKind(msg, offset) = kind
    /\ LET st == ReadNameStep(msg, RnLocals)
       IN  /\ offset' = st.offset
           /\ labels' = st.labels
           /\ jumped' = st.jumped
           /\ origin' = st.origin
           /\ rnpc' = st.status
    /\ steps' = steps + 1
    /\ UNCHANGED <<msg, start, encVars, prVars, txVars, oom>>

\* lines 41-47: a compression pointer is followed
ReadPointer ==
    /\ RnPass("pointer")
    /\ LET target == PointerTarget(Byte(msg, offset), Byte(msg, offset + 1))
       IN  /\ firstPtr' = IF firstPtr = -1 THEN offset ELSE firstPtr
           /\ lastTarget' = target
           /\ decreasing' = (decreasing /\ target < lastTarget)
           /\ forward' = (forward \/ target >= offset)

\* lines 48-50: the zero length byte ends the name
ReadZero == RnPass("zero") /\ UNCHANGED <<firstPtr, lastTarget, decreasing, forward>>

\* lines 51-53: one label is read
ReadLabel == RnPass("label") /\ UNCHANGED <<firstPtr, lastTarget, decreasing, forward>>

\* lines 39 and 42: msg[offset] or msg[offset + 1] is past the buffer
ReadIndexError == RnPass("IndexError") /\ UNCHANGED <<firstPtr, lastTarget, decreasing, forward>>

\* line 52: on a cycle with a label in it labels.append runs out of memory,
\* after more laps than are counted here
ReadMemoryError ==
    /\ rnpc = "run"
    /\ steps = Len(msg) + 3
    /\ CycleGrows(msg, RnLocals)
    /\ oom = "MemoryError"
    /\ rnpc' = CycleOutcome(msg, RnLocals)
    /\ UNCHANGED <<msg, offset, labels, jumped, origin, steps, start, firstPtr, lastTarget,
                   decreasing, forward, encVars, prVars, txVars, oom>>

\* line 52: on such a cycle the process is killed for the memory it holds
ReadKilled ==
    /\ rnpc = "run"
    /\ steps = Len(msg) + 3
    /\ CycleGrows(msg, RnLocals)
    /\ oom = "killed"
    /\ rnpc' = CycleOutcome(msg, RnLocals)
    /\ UNCHANGED <<msg, offset, labels, jumped, origin, steps, start, firstPtr, lastTarget,
                   decreasing, forward, encVars, prVars, txVars, oom>>

NextName ==
    \/ ReadPointer \/ ReadZero \/ ReadLabel \/ ReadIndexError \/ ReadMemoryError \/ ReadKilled

SpecName == InitName /\ [][NextName]_vars

----------------------------------------------------------------------------
(* Properties of read_name, checked under SpecName *)

\* the target of the pointer at 0-based offset p of msg
TargetAt(p) == PointerTarget(Byte(msg, p), Byte(msg, p + 1))

\* C2: while every pointer followed so far went to a target strictly below
\* the previous one (the first below the start offset), read_name has made at
\* most Len(msg) + 1 passes of its loop, the failing pass included, and is no
\* longer running once it has made more than Len(msg).
C2_DecreasingChainBounded ==
    decreasing => /\ steps <= Len(msg) + 1
                  /\ (rnpc = "run" => steps <= Len(msg))

\* a chain of two pointers, each target below the one before, decoded to the end
C2_Witness ==
    /\ rnpc = "ret" /\ decreasing /\ firstPtr # -1
    /\ lastTarget < TargetAt(firstPtr)
    /\ TargetAt(firstPtr) < start

\* C3 as claimed: once read_name has followed a pointer whose target is not
\* below the pointer's own offset, it returns no name, and it has made no more
\* passes than a run that ends can make.
C3_ForwardPointerRejected ==
    forward => /\ rnpc # "ret"
               /\ steps <= Len(msg) + 1

RECURSIVE LinearWalk(_, _, _)
\* the labels lying one after the other from offset off, and where they stop
LinearWalk(m, off, acc) ==
    IF PassKind(m, off) = "label"
    THEN LinearWalk(m, off + 1 + Byte(m, off),
                    Append(acc, DecodeAscii(Slice(m, off + 1, off + 1 + Byte(m, off)))))
    ELSE [pos |-> off, labels |-> acc]

\* C6: when read_name returns, either it met no pointer and the end offset is
\* just after the zero byte that ended the labels read from the start, or its
\* first pointer is where those labels stop, the name is those labels followed
\* by the labels decoded from the pointer's target, and the end offset is the
\* pointer's offset plus 2.  The owner name of the sample response's record, a
\* single pointer to the question name, decodes to the question name and
\* moves the cursor by 2.
C6_CompressedName ==
    rnpc = "ret" =>
        LET w == LinearWalk(msg, start, <<>>)
            name == JoinWith(Dot, labels)
            endOff == EndOffset(RnLocals)
        IN  /\ IF PassKind(msg, w.pos) = "pointer"
               THEN LET sub == ReadName(msg, TargetAt(w.pos))
                    IN  /\ firstPtr = w.pos
                        /\ sub.status = "ret"
                        /\ name = JoinWith(Dot, w.labels \o sub.labels)
                        /\ endOff = w.pos + 2
               ELSE /\ firstPtr = -1
                    /\ PassKind(msg, w.pos) = "zero"
                    /\ name = JoinWith(Dot, w.labels)
                    /\ endOff = w.pos + 1
            /\ (msg = SampleResponse /\ start = 29) =>
                   (name = ExampleCom /\ name = ReadName(msg, 12).name /\ endOff = start + 2)

\* "www" and a pointer to a name that itself ends in a pointer: two pointers
\* followed, the end offset set by the first
C6_Witness ==
    /\ msg = ChainedNames /\ start = 19 /\ rnpc = "ret"
    /\ JoinWith(Dot, labels) = WwwAB
    /\ firstPtr = 23 /\ lastTarget = 12 /\ EndOffset(RnLocals) = 25

----------------------------------------------------------------------------
(* SpecEncode: build_query, then read_name and parse_response on its output *)

\* characters of the hostnames spelled out in full: ".", "a", "b", and a
\* character outside ASCII
HostChars == {46, 97, 98, 233}

\* labels of the hostnames put together label by label: short ones, the
\* longest a name may hold (63), one longer, and two whose length byte would
\* read as a pointer (192) or does not fit a byte (256)
LabelPool == {<<97>>, <<98, 99>>, Rep(120, 63), Rep(121, 64), Rep(122, 192), Rep(119, 256)}

Hostnames ==
    SeqsUpTo(HostChars, MaxChars)
        \cup {JoinWith(Dot, ls) : ls \in SeqsUpTo(LabelPool, MaxLabels) \ {<<>>}}
        \cup {ExampleCom, TmzCom}

EncInit ==
    /\ hostname \in Hostnames
    /\ tid \in Ids
    /\ query = [status |-> "none", bytes |-> <<>>]
    /\ encpc = "init"
    /\ back = <<>>

InitEncode == EncInit /\ RnIdle /\ PrIdle /\ TxIdle /\ oom \in OomOutcomes

\* build_query(tid, hostname)
Encode ==
    /\ encpc = "init"
    /\ query' = BuildQuery(tid, hostname)
    /\ encpc' = "built"
    /\ UNCHANGED <<hostname, tid, back, rnVars, prVars, txVars, oom>>

\* read_name(q, 12) and parse_response(q) on the query that was built
DecodeBack ==
    /\ encpc = "built"
    /\ query.status = "ok"
    /\ back' = [name |-> ReadName(query.bytes, 12), parsed |-> ParseResponse(query.bytes)]
    /\ encpc' = "decoded"
    /\ UNCHANGED <<hostname, tid, query, rnVars, prVars, txVars, oom>>

NextEncode == Encode \/ DecodeBack

SpecEncode == InitEncode /\ [][NextEncode]_vars

\* a hostname of 1 to 10 labels separated by dots, each of 1 to 63 ASCII characters
ValidHost(h) ==
    LET ls == SplitDots(h)
    IN  /\ Len(ls) \in 1..10
        /\ \A i \in 1..Len(ls) : Len(ls[i]) \in 1..63 /\ \A j \in 1..Len(ls[i]) : ls[i][j] < 128

\* C5: for a 16-bit id and a hostname of 1 to 10 ASCII labels of 1 to 63
\* bytes, build_query succeeds, read_name at offset 12 of the query returns
\* the hostname and the offset 4 bytes before the end, and parse_response of
\* the query returns the id.
C5_RoundTrip ==
    ValidHost(hostname) =>
        /\ encpc # "init" => query.status = "ok"
        /\ encpc = "decoded" =>
              /\ back.name.status = "ret"
              /\ back.name.name = hostname
              /\ back.name.end = Len(query.bytes) - 4
              /\ back.parsed.status = "ok"
              /\ back.parsed.id = tid

\* a three-label hostname with a 63-byte label, decoded back under a nonzero id
C5_Witness ==
    /\ encpc = "decoded" /\ ValidHost(hostname)
    /\ Len(SplitDots(hostname)) = 3
    /\ \E i \in 1..3 : Len(SplitDots(hostname)[i]) = 63
    /\ tid = 4660 /\ back.parsed.id = 4660 /\ back.name.name = hostname

\* C8 as claimed: a hostname with a label longer than 63 bytes, or with a
\* character outside ASCII, makes build_query fail and gives no query bytes,
\* and no label is emitted under a length byte above 63.
C8_InvalidHostnameRejected ==
    LET ls == SplitDots(StripDots(hostname))
    IN  (encpc # "init" /\ \E i \in 1..Len(ls) :
                Len(ls[i]) > 63 \/ \E j \in 1..Len(ls[i]) : ls[i][j] >= 128)
            => (query.status # "ok" /\ query.bytes = <<>>)

RECURSIVE LabelStart(_, _)
\* the 0-based offset in the query of the length byte of label i
LabelStart(ls, i) == IF i = 1 THEN 12 ELSE LabelStart(ls, i - 1) + 1 + Len(ls[i - 1])

\* C9: for a valid hostname the query is the header (id, 0x0100, 1, 0, 0, 0),
\* each label behind its length byte, a zero byte, then type 1 and class 1;
\* for id 0x1234 and "example.com" it is the 29 bytes of the scenario.
C9_QueryLayout ==
    (encpc # "init" /\ ValidHost(hostname)) =>
        LET q == query.bytes
            ls == SplitDots(hostname)
            z == LabelStart(ls, Len(ls) + 1)
        IN  /\ query.status = "ok"
            /\ Len(q) = z + 5
            /\ SubSeq(q, 1, 12) = <<tid \div 256, tid % 256, 1, 0, 0, 1, 0, 0, 0, 0, 0, 0>>
            /\ \A i \in 1..Len(ls) :
                  /\ Byte(q, LabelStart(ls, i)) = Len(ls[i])
                  /\ Slice(q, LabelStart(ls, i) + 1, LabelStart(ls, i) + 1 + Len(ls[i])) = ls[i]
            /\ SubSeq(q, z + 1, z + 5) = <<0, 0, 1, 0, 1>>
            /\ (tid = 4660 /\ hostname = ExampleCom) =>
                  q = <<18, 52, 1, 0, 0, 1, 0, 0, 0, 0, 0, 0,
                        7, 101, 120, 97, 109, 112, 108, 101, 3, 99, 111, 109, 0, 0, 1, 0, 1>>

\* the query for id 0x1234 and "example.com" has been built
C9_Witness ==
    /\ encpc = "built" /\ tid = 4660 /\ hostname = ExampleCom
    /\ query.status = "ok" /\ Len(query.bytes) = 29

----------------------------------------------------------------------------
(* SpecParse: parse_response on a well-formed response or a prefix of one *)

\* "93.184.216.34" and "0.255.10.1"
Ip93 == <<57, 51, 46, 49, 56, 52, 46, 50, 49, 54, 46, 51, 52>>
Ip0 == <<48, 46, 50, 53, 53, 46, 49, 48, 46, 49>>

\* the records a synthetic response is made of.  text is the dotted-decimal
\* form of the payload of an address record.  The TTLs run from 0 to 2^31 - 1.
RecordPool ==
    {[owner |-> OwnerPtr, rtype |-> 1, ttl |-> 300, rdata |-> <<93, 184, 216, 34>>, text |-> Ip93],
     [owner |-> OwnerRoot, rtype |-> 1, ttl |-> 2147483647, rdata |-> <<0, 255, 10, 1>>, text |-> Ip0],
     [owner |-> OwnerWwwPtr, rtype |-> 1, ttl |-> 0, rdata |-> <<0, 255, 10, 1>>, text |-> Ip0],
     \* type 1 with a payload that is not 4 bytes long
     [owner |-> OwnerPtr, rtype |-> 1, ttl |-> 60, rdata |-> <<10, 0>>, text |-> <<>>],
     [owner |-> OwnerRoot, rtype |-> 1, ttl |-> 60, rdata |-> <<>>, text |-> <<>>],
     \* a CNAME whose payload is a pointer, and an AAAA
     [owner |-> OwnerPtr, rtype |-> 5, ttl |-> 300, rdata |-> <<192, 12>>, text |-> <<>>],
     [owner |-> OwnerRoot, rtype |-> 5, ttl |-> 300, rdata |-> <<1, 97, 0, 0>>, text |-> <<>>],
     [owner |-> OwnerWwwPtr, rtype |-> 28, ttl |-> 300, rdata |-> Rep(1, 16), text |-> <<>>]}

\* the response flags: a response with recursion, rcode NoError or NXDomain
ResponseFlags == {33152, 33155}

PrInit ==
    /\ qdcount \in {0, 1}
    /\ recs \in SeqsUpTo(RecordPool, MaxRecords)
    \* a pointer to offset 12 names the question, so there is one
    /\ qdcount = 0 => \A i \in 1..Len(recs) : recs[i].owner = OwnerRoot
    /\ \E f \in ResponseFlags : sent = ResponseBytes(4660, f, qdcount, ExampleCom, recs)
    /\ cut \in 0..Len(sent)
    /\ resp = SubSeq(sent, 1, cut)
    /\ parsed = <<>>
    /\ prpc = "init"

InitParse == PrInit /\ RnIdle /\ EncIdle /\ TxIdle /\ oom \in OomOutcomes

\* parse_response(resp)
Parse ==
    /\ prpc = "init"
    /\ parsed' = ParseResponse(resp)
    /\ prpc' = "done"
    /\ UNCHANGED <<resp, sent, cut, recs, qdcount, rnVars, encVars, txVars, oom>>

NextParse == Parse

SpecParse == InitParse /\ [][NextParse]_vars

\* C4 as claimed: parse_response of a strict prefix of a well-formed response
\* that declares at least one answer record returns no result.
C4_TruncatedFails ==
    (prpc = "done" /\ cut < Len(sent) /\ Len(recs) >= 1) => parsed.status # "ok"

RECURSIVE AddressEntries(_)
\* the entries of the records of type 1 with a 4-byte payload, in order
AddressEntries(rs) ==
    IF rs = <<>> THEN <<>>
    ELSE (IF Head(rs).rtype = 1 /\ Len(Head(rs).rdata) = 4
          THEN <<[type |-> "A", ip |-> Head(rs).text, ttl |-> Head(rs).ttl]>>
          ELSE <<>>) \o AddressEntries(Tail(rs))

\* C7: parse_response of a complete response returns a result whose answers
\* are the records of type 1 with a 4-byte payload, in wire order, each with
\* the dotted-decimal form of its payload and its TTL; the other records are
\* passed over, and with no answer record the list is empty.  The id is the
\* header's and the rcode the low four bits of the flags.
C7_AddressRecordsInOrder ==
    (prpc = "done" /\ cut = Len(sent)) =>
        /\ parsed.status = "ok"
        /\ parsed.answers = AddressEntries(recs)
        /\ Len(recs) = 0 => parsed.answers = <<>>
        /\ parsed.id = 4660
        /\ parsed.rcode = Unpack16(sent, 2) % 16
        /\ recs = <<SampleRecord @@ [text |-> Ip93]>> =>
               parsed.answers = <<[type |-> "A", ip |-> Ip93, ttl |-> 300]>>

\* a complete response whose first record is skipped and whose second is an
\* address record that is returned
C7_Witness ==
    /\ prpc = "done" /\ cut = Len(sent) /\ Len(recs) = 2
    /\ recs[1].rtype = 1 /\ Len(recs[1].rdata) = 2
    /\ recs[2].rtype = 1 /\ Len(recs[2].rdata) = 4
    /\ parsed.status = "ok"
    /\ parsed.answers = <<[type |-> "A", ip |-> Ip93, ttl |-> 300]>>

----------------------------------------------------------------------------
(* SpecTxn: resolve_once, one statement per step *)

\* sock.recvfrom(2048)
RecvSize == 2048

\* the datagrams that may arrive: the answer to the question, its first 40
\* bytes, an NXDomain answer under another id, five bytes, a question whose
\* name is a pointer to itself, and one whose name is a label and a pointer
\* back to that label
Datagrams ==
    {ResponseBytes(4660, 33152, 1, TmzCom, <<SampleRecord>>),
     SubSeq(ResponseBytes(4660, 33152, 1, TmzCom, <<SampleRecord>>), 1, 40),
     ResponseBytes(7, 33155, 1, TmzCom, <<>>),
     <<1, 2, 3, 4, 5>>,
     Pack16(4660) \o Pack16(33152) \o Pack16(1) \o Pack16(0) \o Pack16(0) \o Pack16(0)
         \o <<192, 12>>,
     Pack16(4660) \o Pack16(33152) \o Pack16(1) \o Pack16(0) \o Pack16(0) \o Pack16(0)
         \o <<1, 97, 192, 12>>}

\* a resolve_once that sends the query again when the receive times out
RaiseOrRetry(kind) ==
    IF kind = "socket.timeout" THEN [pc |-> "sendto", outcome |-> "none"]
    ELSE [pc |-> "done", outcome |-> kind]

\* an exception leaves resolve_once: nothing of it runs afterwards
Raise(kind) == [pc |-> "done", outcome |-> kind]

TxInit ==
    /\ hostname \in {TmzCom, ExampleCom, <<109, 252, 46, 100, 101>>}
    /\ tid \in Ids
    /\ query = [status |-> "none", bytes |-> <<>>]
    /\ encpc = "idle" /\ back = <<>>
    /\ pc = "build_query" /\ sock = "none" /\ sends = 0 /\ recvs = 0 /\ decodes = 0
    /\ reply = <<>> /\ result = <<>> /\ outcome = "none"

InitTxn == TxInit /\ RnIdle /\ PrIdle /\ oom \in OomOutcomes

\* lines 88-89: the query is built, or build_query raises
TxBuildQuery ==
    /\ pc = "build_query"
    /\ query' = BuildQuery(tid, hostname)
    /\ IF query'.status = "ok"
       THEN pc' = "socket" /\ outcome' = outcome
       ELSE pc' = Raise(query'.status).pc /\ outcome' = Raise(query'.status).outcome
    /\ UNCHANGED <<hostname, tid, encpc, back, sock, sends, recvs, decodes, reply, result,
                   rnVars, prVars, oom>>

\* lines 91-92: the socket is opened and its timeout set
TxSocket ==
    /\ pc = "socket"
    /\ sock' = "open"
    /\ pc' = "sendto"
    /\ UNCHANGED <<encVars, sends, recvs, decodes, reply, result, outcome, rnVars, prVars, oom>>

\* line 91: socket.socket raises OSError
TxSocketFails ==
    /\ pc = "socket"
    /\ pc' = Raise("OSError").pc /\ outcome' = Raise("OSError").outcome
    /\ UNCHANGED <<encVars, sock, sends, recvs, decodes, reply, result, rnVars, prVars, oom>>

\* line 95: the query is handed to the transport
TxSendto ==
    /\ pc = "sendto"
    /\ sends' = sends + 1
    /\ pc' = "recvfrom"
    /\ UNCHANGED <<encVars, sock, recvs, decodes, reply, result, outcome, rnVars, prVars, oom>>

\* line 95: sendto raises OSError
TxSendtoFails ==
    /\ pc = "sendto"
    /\ sends' = sends + 1
    /\ pc' = Raise("OSError").pc /\ outcome' = Raise("OSError").outcome
    /\ UNCHANGED <<encVars, sock, recvs, decodes, reply, result, rnVars, prVars, oom>>

\* line 96: a datagram arrives within the timeout
TxRecvfrom ==
    /\ pc = "recvfrom"
    /\ \E d \in Datagrams : reply' = Slice(d, 0, RecvSize)
    /\ recvs' = recvs + 1
    /\ pc' = "close"
    /\ UNCHANGED <<encVars, sock, sends, decodes, result, outcome, rnVars, prVars, oom>>

\* line 96: no datagram arrives within the timeout
TxRecvTimeout ==
    /\ pc = "recvfrom"
    /\ recvs' = recvs + 1
    /\ pc' = Raise("socket.timeout").pc /\ outcome' = Raise("socket.timeout").outcome
    /\ UNCHANGED <<encVars, sock, sends, decodes, reply, result, rnVars, prVars, oom>>

\* line 98
TxClose ==
    /\ pc = "close"
    /\ sock' = "closed"
    /\ pc' = "parse_response"
    /\ UNCHANGED <<encVars, sends, recvs, decodes, reply, result, outcome, rnVars, prVars, oom>>

\* lines 101-102: the reply is parsed and returned, or parse_response raises,
\* or it never comes back, or the process is killed inside it
TxParse ==
    /\ pc = "parse_response"
    /\ decodes' = decodes + 1
    /\ LET p == ParseResponse(reply)
       IN  CASE p.status = "ok" -> result' = p /\ pc' = "done" /\ outcome' = "returned"
             [] p.status \in {"hang", "killed"} ->
                         result' = result /\ pc' = p.status /\ outcome' = outcome
             [] OTHER -> /\ result' = result
                         /\ pc' = Raise(p.status).pc /\ outcome' = Raise(p.status).outcome
    /\ UNCHANGED <<encVars, sock, sends, recvs, reply, rnVars, prVars, oom>>

NextTxn ==
    \/ TxBuildQuery \/ TxSocket \/ TxSocketFails \/ TxSendto \/ TxSendtoFails
    \/ TxRecvfrom \/ TxRecvTimeout \/ TxClose \/ TxParse

SpecTxn == InitTxn /\ [][NextTxn]_vars

\* C1 as claimed: when resolve_once has returned or raised, the socket it
\* opened is closed.
C1_SocketClosedOnExit == pc = "done" => sock # "open"

\* C10 as claimed: every run of resolve_once that has ended sent exactly one
\* datagram, received at most once, and decoded only what it had received.
C10_ExactlyOneSend ==
    pc = "done" => (sends = 1 /\ recvs <= 1 /\ (decodes = 1 => recvs = 1))

\* C10, amended: no run calls sendto, recvfrom or parse_response more than
\* once; recvfrom is called only after sendto, and parse_response only after
\* a datagram was received and the socket closed; a run that got as far as
\* opening the socket called sendto exactly once, and a run that did not
\* sent nothing; a run that ended without returning ended with an exception,
\* and a run that has ended does nothing more.
C10_OneSendOneReceive ==
    /\ sends <= 1 /\ recvs <= 1 /\ decodes <= 1
    /\ recvs = 1 => sends = 1
    /\ decodes = 1 => (recvs = 1 /\ sock = "closed" /\ pc \in {"done", "hang", "killed"})
    /\ (pc = "done" /\ sock # "none") => sends = 1
    /\ (pc = "done" /\ sock = "none") => sends = 0
    /\ outcome = "returned" => (pc = "done" /\ sends = 1 /\ recvs = 1 /\ decodes = 1)
    /\ pc = "done" =>
          /\ outcome \in {"returned", "socket.timeout", "OSError", "ValueError", "IndexError",
                          "struct.error", "MemoryError", "UnicodeEncodeError"}
          /\ ~ ENABLED NextTxn

\* a run that ended in a timeout, after one send and one receive
C10_Witness ==
    pc = "done" /\ outcome = "socket.timeout" /\ sends = 1 /\ recvs = 1 /\ decodes = 0

============================================================================
